---- MODULE Spec2Model ----
(***************************************************************************)
(* A model of src/amoritize.py: the class Amoritize, its constructor, its  *)
(* four calculate_* helpers and schedule().                                *)
(*                                                                         *)
(* Numbers.  A Decimal d is modelled by the exact rational 100*d, written  *)
(* as a record [num, den] (an amount in cents); a Decimal that came out of *)
(* quantize(Decimal("0.00")) is a whole number of cents and is modelled by *)
(* that integer.  A float argument is modelled by the rational it holds;   *)
(* the inputs are floats that hold their value exactly (dyadic rationals). *)
(* The decimal context is Python's default: 28 significant digits,         *)
(* ROUND_HALF_EVEN, DivisionByZero and InvalidOperation trapped.  On the   *)
(* inputs of this model every product fits in 28 digits, so it is exact,   *)
(* and the quotient in calculate_pmt is never within 10^-20 of a half cent,*)
(* so quantizing the exact quotient gives the value the code computes.     *)
(*                                                                         *)
(* float(d) of a two-digit Decimal d (the fields of a period record,       *)
(* total_interest and total_cost of the response) is the double nearest to *)
(* d; that double determines d, and it is named here by d's cents.         *)
(***************************************************************************)
EXTENDS Integers, Sequences, FiniteSets, TLC

\* Largest period count n given to the constructor.
MaxN == 4

\* Largest number of schedule() calls made on one instance.
MaxCalls == 2

\* Largest principal given to the constructor, in eighths of a currency unit.
MaxBal == 16

VARIABLES
    inst,                \* instance id -> the attributes of that Amoritize object
                         \* and the frame of its schedule() call in progress
    cls_total_interest,  \* the class attribute Amoritize.total_interest
    qlog,                \* the quantize calls made by the last step
    returned             \* instance id -> the responses its schedule() calls returned

vars == <<inst, cls_total_interest, qlog, returned>>

----------------------------------------------------------------------------
(* Decimal.quantize(Decimal("0.00")) under the default context *)

Abs(x) == IF x < 0 THEN -x ELSE x

\* x with a positive denominator
Normal(x) == IF x.den < 0 THEN [num |-> -x.num, den |-> -x.den] ELSE x

\* Round half up (toward +infinity on a tie): what a wrong rounding mode does.
RoundHalfUp(x) ==
    LET y == Normal(x)
        q == y.num \div y.den
        r == y.num % y.den
    IN  IF 2 * r < y.den THEN q ELSE q + 1

\* quantize(Decimal("0.00")): the nearest whole number of cents, a tie going
\* to the even one (ROUND_HALF_EVEN, the default context's rounding).
Quantize(x) ==
    LET y == Normal(x)
        q == y.num \div y.den
        r == y.num % y.den
    IN  IF 2 * r < y.den THEN q
        ELSE IF 2 * r > y.den THEN q + 1
        ELSE IF q % 2 = 0 THEN q ELSE q + 1

\* The entry of qlog for one quantize call.
Quantized(x) == [num |-> x.num, den |-> x.den, res |-> Quantize(x)]

----------------------------------------------------------------------------
(* datetime.date and dateutil's relativedelta(months=+k) *)

IsLeap(y) == (y % 4 = 0 /\ y % 100 # 0) \/ y % 400 = 0

DaysInMonth(y, m) ==
    IF m = 2 THEN (IF IsLeap(y) THEN 29 ELSE 28)
    ELSE IF m \in {4, 6, 9, 11} THEN 30 ELSE 31

\* d + relativedelta(months=+k): k whole months later, the day clamped to the
\* length of the month reached.
AddMonths(d, k) ==
    LET t == (d.year * 12 + (d.month - 1)) + k
        y == t \div 12
        m == (t % 12) + 1
        last == DaysInMonth(y, m)
    IN  [year |-> y, month |-> m, day |-> IF d.day > last THEN last ELSE d.day]

----------------------------------------------------------------------------
(* Amoritize.__init__ *)

\* Decimal(bal): the float bal, exactly, in cents.
BalDecimal(bal) == [num |-> 100 * bal.num, den |-> bal.den]

\* Decimal(apr / 12): the float quotient is the exact quotient when that is a
\* float, which it is for every apr of AprInputs (a multiple of 3/4).
Mpr(apr) == [num |-> apr.num \div 3, den |-> apr.den * 4]

New(bal, apr, n, start_date) ==
    [ bal           |-> Quantize(BalDecimal(bal)),
      pv            |-> Quantize(BalDecimal(bal)),
      apr           |-> apr,
      n             |-> n,
      mpr           |-> Mpr(apr),
      date          |-> start_date,
      \* total_interest is no instance attribute until schedule() assigns it
      has_ti        |-> FALSE,
      total_interest |-> 0,
      \* the frame of schedule()
      pc            |-> "idle",
      calls         |-> 0,
      counter       |-> 0,
      month_counter |-> 0,
      pmt           |-> 0,
      schedule      |-> << >>,
      err           |-> "none" ]

\* The quantize calls of one constructor call.
NewLog(bal) == << Quantized(BalDecimal(bal)), Quantized(BalDecimal(bal)) >>

----------------------------------------------------------------------------
(* the calculate_* methods *)

RECURSIVE Pow(_, _)
Pow(b, e) == IF e = 0 THEN 1 ELSE b * Pow(b, e - 1)

\* The operand of quantize in calculate_pmt, pv * (mpr / (1 - (1 + mpr) ** -n)),
\* as an exact rational; defined when 1 - (1 + mpr) ** -n is not 0.
\* With mpr = a/b, m = |n|, U = (a+b)^m and V = b^m:
\*   n >= 0: (1+mpr)**-n = V/U, so mpr / (1 - V/U) = a*U / (b*(U-V))
\*   n <  0: (1+mpr)**-n = U/V, so mpr / (1 - U/V) = a*V / (b*(V-U))
PmtOperand(pv, mpr, n) ==
    LET a == mpr.num
        b == mpr.den
        U == Pow(a + b, Abs(n))
        V == Pow(b, Abs(n))
    IN  IF n >= 0
        THEN [num |-> pv * a * U, den |-> b * (U - V)]
        ELSE [num |-> pv * a * V, den |-> b * (V - U)]

\* Treats a zero divisor as a quotient of zero: what a silent fallback does.
calculate_pmt_silent(pv, mpr, n) ==
    IF PmtOperand(pv, mpr, n).den = 0
    THEN [err |-> "none", val |-> 0, log |-> << >>]
    ELSE [err |-> "none", val |-> Quantize(PmtOperand(pv, mpr, n)),
          log |-> << Quantized(PmtOperand(pv, mpr, n)) >>]

\* calculate_pmt: the division raises when 1 - (1 + mpr) ** -n is 0, which is
\* when mpr = 0 or n = 0: InvalidOperation for 0/0, DivisionByZero for x/0.
calculate_pmt(pv, mpr, n) ==
    IF PmtOperand(pv, mpr, n).den = 0
    THEN [err |-> IF mpr.num = 0 THEN "InvalidOperation" ELSE "DivisionByZero",
          val |-> 0, log |-> << >>]
    ELSE [err |-> "none", val |-> Quantize(PmtOperand(pv, mpr, n)),
          log |-> << Quantized(PmtOperand(pv, mpr, n)) >>]

\* The operand of quantize in calculate_interest_due: pv * mpr.
InterestOperand(pv, mpr) == [num |-> pv * mpr.num, den |-> mpr.den]

calculate_interest_due(pv, mpr) == Quantize(InterestOperand(pv, mpr))

\* The operand of quantize in calculate_principal_paid: pmt - interest.
PrincipalOperand(pmt, interest) == [num |-> pmt - interest, den |-> 1]

calculate_principal_paid(pmt, interest) == Quantize(PrincipalOperand(pmt, interest))

\* The operand of quantize in calculate_new_balance: pv - principal_paid.
BalanceOperand(pv, principal_paid) == [num |-> pv - principal_paid, den |-> 1]

calculate_new_balance(pv, principal_paid) == Quantize(BalanceOperand(pv, principal_paid))

----------------------------------------------------------------------------
(* Amoritize.schedule *)

\* self.total_interest as an expression: the instance attribute when there
\* is one, the class attribute otherwise.
ReadTotalInterest(o, cls) == IF o.has_ti THEN o.total_interest ELSE cls

\* Accumulates on the class attribute: what Amoritize.total_interest += x does.
AccumulateOnClass(o, cls, interest) ==
    [ has_ti |-> o.has_ti, total_interest |-> o.total_interest,
      cls |-> ReadTotalInterest(o, cls) + interest ]

\* self.total_interest += monthly_interest: reads the attribute, adds (a
\* Decimal is immutable, so += makes a new one) and assigns the instance
\* attribute; the class attribute keeps its value.
AccumulateInterest(o, cls, interest) ==
    [ has_ti |-> TRUE, total_interest |-> ReadTotalInterest(o, cls) + interest,
      cls |-> cls ]

\* The loop body with the final-period correction adding to pmt only: what
\* leaving out the two recomputations does.
LoopBodyNoRecompute(o) ==
    LET monthly_interest == calculate_interest_due(o.pv, o.mpr)
        principal_paid == calculate_principal_paid(o.pmt, monthly_interest)
        updated_balance == calculate_new_balance(o.pv, principal_paid)
        fix == o.counter = 1 /\ updated_balance > 0
    IN  [ pmt |-> IF fix THEN o.pmt + updated_balance ELSE o.pmt,
          interest |-> monthly_interest,
          principal_paid |-> principal_paid,
          updated_balance |-> updated_balance,
          fixed |-> fix,
          log |-> << Quantized(InterestOperand(o.pv, o.mpr)),
                     Quantized(PrincipalOperand(o.pmt, monthly_interest)),
                     Quantized(BalanceOperand(o.pv, principal_paid)) >> ]

\* One pass of the loop body up to the assignment of self.pv: the interest,
\* the principal paid and the new balance, and for the last payment
\* (counter = 1) with a balance left over, the payment raised by that balance
\* and the principal paid and the new balance computed again.
LoopBody(o) ==
    LET monthly_interest == calculate_interest_due(o.pv, o.mpr)
        principal_paid == calculate_principal_paid(o.pmt, monthly_interest)
        updated_balance == calculate_new_balance(o.pv, principal_paid)
        fix == o.counter = 1 /\ updated_balance > 0
        pmt2 == o.pmt + updated_balance
        principal_paid2 == calculate_principal_paid(pmt2, monthly_interest)
        updated_balance2 == calculate_new_balance(o.pv, principal_paid2)
        log == << Quantized(InterestOperand(o.pv, o.mpr)),
                  Quantized(PrincipalOperand(o.pmt, monthly_interest)),
                  Quantized(BalanceOperand(o.pv, principal_paid)) >>
    IN  IF fix
        THEN [ pmt |-> pmt2,
               interest |-> monthly_interest,
               principal_paid |-> principal_paid2,
               updated_balance |-> updated_balance2,
               fixed |-> TRUE,
               log |-> log \o << Quantized(PrincipalOperand(pmt2, monthly_interest)),
                                 Quantized(BalanceOperand(o.pv, principal_paid2)) >> ]
        ELSE [ pmt |-> o.pmt,
               interest |-> monthly_interest,
               principal_paid |-> principal_paid,
               updated_balance |-> updated_balance,
               fixed |-> FALSE,
               log |-> log ]

\* The dictionary of one month.
Month(o, b) ==
    [ payment |-> b.pmt,
      interest |-> b.interest,
      principal_paid |-> b.principal_paid,
      present_value |-> b.updated_balance,
      date |-> AddMonths(o.date, o.month_counter) ]

\* The response dictionary.
Response(o, cls) ==
    [ balance |-> o.bal,
      apr |-> o.apr,
      monthly_payment |-> o.pmt,
      schedule |-> o.schedule,
      total_interest |-> ReadTotalInterest(o, cls),
      total_cost |-> o.bal + ReadTotalInterest(o, cls) ]

\* schedule() is called on instance i and runs up to the while test (pc =
\* "loop"): counter, month_counter, pmt and the empty list. An exception of
\* calculate_pmt ends the call (pc = "error").
ScheduleEnter(i) ==
    LET o == inst[i]
        p == calculate_pmt(o.pv, o.mpr, o.n)
    IN  /\ o.pc \in {"idle", "done", "error"}
        /\ o.calls < MaxCalls
        /\ inst' = [inst EXCEPT ![i] =
                IF p.err # "none"
                THEN [o EXCEPT !.pc = "error", !.err = p.err, !.calls = @ + 1,
                               !.counter = 0, !.month_counter = 0, !.pmt = 0,
                               !.schedule = << >>]
                ELSE [o EXCEPT !.pc = "loop", !.err = "none", !.calls = @ + 1,
                               !.counter = o.n, !.month_counter = 0,
                               !.pmt = p.val, !.schedule = << >>]]
        /\ qlog' = p.log
        /\ UNCHANGED <<cls_total_interest, returned>>

\* One pass of the while loop of instance i's call.
LoopStep(i) ==
    LET o == inst[i]
        b == LoopBody(o)
        t == AccumulateInterest(o, cls_total_interest, b.interest)
    IN  /\ o.pc = "loop"
        /\ o.counter > 0
        /\ inst' = [inst EXCEPT ![i] =
                [o EXCEPT !.pmt = b.pmt,
                          !.pv = b.updated_balance,
                          !.schedule = Append(@, Month(o, b)),
                          !.has_ti = t.has_ti,
                          !.total_interest = t.total_interest,
                          !.counter = @ - 1,
                          !.month_counter = @ + 1]]
        /\ cls_total_interest' = t.cls
        /\ qlog' = b.log
        /\ UNCHANGED returned

\* The loop of instance i's call is over: the response is built and returned,
\* and the locals of the call are gone.
ScheduleReturn(i) ==
    LET o == inst[i]
    IN  /\ o.pc = "loop"
        /\ o.counter <= 0
        /\ returned' = [returned EXCEPT ![i] = Append(@, Response(o, cls_total_interest))]
        /\ inst' = [inst EXCEPT ![i] =
                [o EXCEPT !.pc = "done", !.counter = 0, !.month_counter = 0,
                          !.pmt = 0, !.schedule = << >>]]
        /\ qlog' = << >>
        /\ UNCHANGED cls_total_interest

----------------------------------------------------------------------------
(* the inputs *)

\* bal: floats that are a whole number of eighths, -0.125 to MaxBal/8.
BalInputs == { [num |-> k, den |-> 8] : k \in -1 .. MaxBal }

\* apr: -0.75, 0.0, 0.75 and 1.5 (a monthly rate of -1/16, 0, 1/16 and 1/8).
AprInputs == { [num |-> 3 * a, den |-> 4] : a \in -1 .. 2 }

\* n: -1 to MaxN.
NInputs == -1 .. MaxN

\* start_date
DateInputs == { [year |-> 2019, month |-> 7, day |-> 1],
                [year |-> 2019, month |-> 12, day |-> 31] }

\* The constructor arguments of the runs with two instances.
PairInputs ==
    { [bal |-> [num |-> k, den |-> 8], apr |-> [num |-> 3 * a, den |-> 4], n |-> n,
       start_date |-> [year |-> 2019, month |-> 7, day |-> 1]] :
      k \in {8, 9}, a \in {1, 2}, n \in {1, 2} }

\* The exact quotient of calculate_pmt is a whole number of cents and a half.
\* There the code's payment hangs on how the 28-digit context rounded
\* (1 + mpr) ** -n and the division, which this model does not carry, so the
\* constructor arguments that lead to it are left out of the inputs.
PmtOnTie(bal, apr, n) ==
    LET x == Normal(PmtOperand(Quantize(BalDecimal(bal)), Mpr(apr), n))
    IN  x.den # 0 /\ (2 * x.num) % x.den = 0 /\ x.num % x.den # 0

\* The class statement ran and one instance was constructed.
Init ==
    /\ cls_total_interest = 0
    /\ \E bal \in BalInputs, apr \in AprInputs, n \in NInputs, d \in DateInputs :
          /\ ~PmtOnTie(bal, apr, n)
          /\ inst = [i \in {1} |-> New(bal, apr, n, d)]
          /\ qlog = NewLog(bal)
    /\ returned = [i \in {1} |-> << >>]

\* The class statement ran and two instances were constructed.
InitPair ==
    /\ cls_total_interest = 0
    /\ \E x \in PairInputs, y \in PairInputs :
          /\ inst = [i \in {1, 2} |->
                        IF i = 1 THEN New(x.bal, x.apr, x.n, x.start_date)
                                 ELSE New(y.bal, y.apr, y.n, y.start_date)]
          /\ qlog = NewLog(x.bal) \o NewLog(y.bal)
    /\ returned = [i \in {1, 2} |-> << >>]

Next ==
    \/ \E i \in DOMAIN inst : ScheduleEnter(i)
    \/ \E i \in DOMAIN inst : LoopStep(i)
    \/ \E i \in DOMAIN inst : ScheduleReturn(i)

\* One instance; its schedule() calls follow one another.
Spec == Init /\ [][Next]_vars

\* Two instances; the steps of their schedule() calls in any order.
SpecPair == InitPair /\ [][Next]_vars

----------------------------------------------------------------------------
(* what the properties are stated with *)

\* principal > 0, annual rate > 0, n >= 1
ValidInput(o) == o.bal > 0 /\ o.apr.num > 0 /\ o.n >= 1

\* principal <= 0, n <= 0 or a negative rate
InvalidInput(o) == o.bal <= 0 \/ o.n <= 0 \/ o.apr.num < 0

\* The responses instance i has returned so far.
Responses(i) == { returned[i][c] : c \in 1 .. Len(returned[i]) }

\* Every list of period records there is: of the calls in progress and of the
\* responses returned.
Schedules(i) == { inst[i].schedule } \cup { r.schedule : r \in Responses(i) }

RECURSIVE SumInterest(_)
SumInterest(s) == IF s = << >> THEN 0 ELSE Head(s).interest + SumInterest(Tail(s))

\* The balance before period k of schedule s of an instance whose principal is bal.
BalanceBefore(s, k, bal) == IF k = 1 THEN bal ELSE s[k - 1].present_value

\* The distance of a quantize result from its operand, in units of 1/(2*den) cent.
Off(e) == 2 * Abs(Normal(e).num - e.res * Normal(e).den)

\* The operand of e lies exactly halfway between two cent values.
OnTie(e) == Normal(e).num % Normal(e).den # 0 /\ (2 * Normal(e).num) % Normal(e).den = 0

----------------------------------------------------------------------------
(* the properties *)

\* C1: for every valid input (principal > 0, annual rate > 0, n >= 1) the
\* balance of the last period record of a response is exactly 0.00.
C1_LastBalanceZero ==
    \A i \in DOMAIN inst : \A r \in Responses(i) :
        ValidInput(inst[i]) /\ r.schedule # << >>
            => r.schedule[Len(r.schedule)].present_value = 0

\* C2: in every period record, the last one after the final-period correction
\* included, payment = interest + principal_paid exactly, in cents.
C2_Decomposition ==
    \A i \in DOMAIN inst : \A s \in Schedules(i) : \A k \in 1 .. Len(s) :
        s[k].payment = s[k].interest + s[k].principal_paid

\* C2's case: a response whose last payment was raised by the correction.
C2_Witness ==
    \E i \in DOMAIN inst : \E r \in Responses(i) :
        /\ Len(r.schedule) >= 2
        /\ r.schedule[Len(r.schedule)].payment > r.schedule[1].payment
        /\ r.schedule[Len(r.schedule)].present_value = 0

\* C3: in every response (of a valid loan), total_interest is the sum of the
\* interest fields of the period records of that response, and total_cost is
\* principal + total_interest.
C3_Totals ==
    \A i \in DOMAIN inst : \A r \in Responses(i) :
        ValidInput(inst[i])
            => /\ r.total_interest = SumInterest(r.schedule)
               /\ r.total_cost = r.balance + r.total_interest

\* C4: the running state of a schedule() call does not survive it: a later
\* call on the same instance (of a valid loan) starts from balance = principal
\* and accumulated interest = 0, and returns what the first call returned.
C4_NoStateSurvives ==
    \A i \in DOMAIN inst :
        ValidInput(inst[i])
            => /\ inst[i].pc = "loop" /\ inst[i].schedule = << >>
                     => /\ inst[i].pv = inst[i].bal
                        /\ ReadTotalInterest(inst[i], cls_total_interest) = 0
               /\ \A c \in 1 .. Len(returned[i]) : returned[i][c] = returned[i][1]

\* The constructor arguments of instances i and j are the same.
SameArguments(i, j) ==
    /\ inst[i].bal = inst[j].bal
    /\ inst[i].apr = inst[j].apr
    /\ inst[i].n = inst[j].n
    /\ inst[i].date = inst[j].date

\* C5: the first schedule() calls of two instances constructed with the same
\* arguments return the same response, however the steps of the two calls and
\* of other calls are ordered.
C5_InstancesIndependent ==
    \A i, j \in DOMAIN inst :
        SameArguments(i, j) /\ returned[i] # << >> /\ returned[j] # << >>
            => returned[i][1] = returned[j][1]

\* C5's case: two instances with the same arguments have both returned a
\* schedule that charged interest.
C5_Witness ==
    \E i, j \in DOMAIN inst :
        /\ i # j
        /\ SameArguments(i, j)
        /\ returned[i] # << >> /\ returned[j] # << >>
        /\ returned[i][1].total_interest > 0
        /\ Len(returned[j][1].schedule) >= 2

\* C6: monthly_payment of a response (of a valid loan) is the payment of every
\* period record of that response but possibly the last.
C6_LevelPayment ==
    \A i \in DOMAIN inst : \A r \in Responses(i) :
        \A k \in 1 .. Len(r.schedule) - 1 :
            ValidInput(inst[i]) => r.schedule[k].payment = r.monthly_payment

\* C7: for valid inputs the recorded balance never rises from one period to
\* the next, starting from the principal, and falls in every period whose
\* payment is greater than its interest.
C7_BalanceMonotone ==
    \A i \in DOMAIN inst : \A s \in Schedules(i) : \A k \in 1 .. Len(s) :
        ValidInput(inst[i])
            => /\ s[k].present_value <= BalanceBefore(s, k, inst[i].bal)
               /\ s[k].payment > s[k].interest
                     => s[k].present_value < BalanceBefore(s, k, inst[i].bal)

\* C8: with an invalid input schedule() ends in an error before the loop and
\* returns nothing: the call never stands at the while test (pc = "loop") and
\* never returns.
C8_InvalidRejected ==
    \A i \in DOMAIN inst :
        InvalidInput(inst[i])
            => inst[i].pc \in {"idle", "error"} /\ returned[i] = << >>

\* C9: with an annual rate of exactly 0, schedule() ends in an error before a
\* period record is made: it never enters the loop and never returns.
C9_ZeroRateRaises ==
    \A i \in DOMAIN inst :
        inst[i].apr.num = 0
            => /\ inst[i].pc \in {"idle", "error"}
               /\ inst[i].schedule = << >>
               /\ returned[i] = << >>
               /\ inst[i].pc = "error" => inst[i].err = "InvalidOperation"

\* C9's case: schedule() was called with a rate of 0 on an otherwise valid loan.
C9_Witness ==
    \E i \in DOMAIN inst :
        /\ inst[i].apr.num = 0
        /\ inst[i].bal > 0 /\ inst[i].n >= 1
        /\ inst[i].calls >= 1
        /\ inst[i].pc = "error"

\* C10 as the spec has it: every quantize result is the cent value nearest to
\* its operand, and on a tie the one farther from zero.
C10_HalfAwayFromZero ==
    \A k \in 1 .. Len(qlog) :
        /\ Off(qlog[k]) <= Normal(qlog[k]).den
        /\ OnTie(qlog[k])
              => Abs(qlog[k].res) * Normal(qlog[k]).den > Abs(Normal(qlog[k]).num)

\* C10 as the code has it: every quantize result is the cent value nearest to
\* its operand, and on a tie the even one.
C10_HalfEven ==
    \A k \in 1 .. Len(qlog) :
        /\ Off(qlog[k]) <= Normal(qlog[k]).den
        /\ OnTie(qlog[k]) => qlog[k].res % 2 = 0

\* C10's case: calculate_interest_due quantized an operand that lies halfway
\* between two cent values, and went to the one nearer to zero.
C10_Witness ==
    \E i \in DOMAIN inst :
        /\ inst[i].pc = "loop"
        /\ inst[i].schedule # << >>
        /\ qlog # << >>
        /\ OnTie(qlog[1])
        /\ qlog[1].num > 0
        /\ qlog[1].res * qlog[1].den < qlog[1].num

----------------------------------------------------------------------------
(* what holds of the first call of an instance, where C3 and C7 fail only on *)
(* a later call                                                             *)

\* The list of period records of instance i's first call, in progress or returned.
FirstSchedules(i) ==
    (IF inst[i].calls = 1 THEN { inst[i].schedule } ELSE {})
        \cup (IF returned[i] = << >> THEN {} ELSE { returned[i][1].schedule })

\* The first response of an instance has total_interest = the sum of its
\* interest fields, and every response has total_cost = principal + total_interest.
FirstCallTotals ==
    \A i \in DOMAIN inst :
        /\ returned[i] # << >>
              => returned[i][1].total_interest = SumInterest(returned[i][1].schedule)
        /\ \A r \in Responses(i) : r.total_cost = r.balance + r.total_interest

\* Within the first call on a valid loan the recorded balance never rises, falls
\* whenever payment > interest, and ends at 0.00 or below.
FirstCallBalanceMonotone ==
    \A i \in DOMAIN inst : \A s \in FirstSchedules(i) : \A k \in 1 .. Len(s) :
        ValidInput(inst[i])
            => /\ s[k].present_value <= BalanceBefore(s, k, inst[i].bal)
               /\ s[k].payment > s[k].interest
                     => s[k].present_value < BalanceBefore(s, k, inst[i].bal)
               /\ k = inst[i].n => s[k].present_value <= 0

====
